---- MODULE Spec2Model ----
(***************************************************************************)
(* Model of ghq's local repository resolver (local_repository.go) and VCS  *)
(* backend registry (vcs.go).                                              *)
(*                                                                         *)
(* Go strings are sequences of one-character strings, so that prefix,      *)
(* suffix, split and join are computed the way the standard library        *)
(* computes them.  "/r2/h" is <<"/","r","2","/","h">>.                     *)
(***************************************************************************)
EXTENDS Integers, Sequences, FiniteSets, TLC

(***************************************************************************)
(* Bounds of the model.                                                    *)
(***************************************************************************)
\* how many symbolic links one path resolution follows before giving up
MaxLinks == 3
\* how many times a run calls a backend's Clone or Update
MaxOps == 1

(***************************************************************************)
(* strings, path/filepath (Unix)                                           *)
(***************************************************************************)
Separator == "/"

EmptyStr == << >>

HasPrefix(s, prefix) ==
    /\ Len(prefix) <= Len(s)
    /\ SubSeq(s, 1, Len(prefix)) = prefix

HasSuffix(s, suffix) ==
    /\ Len(suffix) <= Len(s)
    /\ SubSeq(s, Len(s) - Len(suffix) + 1, Len(s)) = suffix

TrimSuffix(s, suffix) ==
    IF HasSuffix(s, suffix) THEN SubSeq(s, 1, Len(s) - Len(suffix)) ELSE s

\* strings.Split(s, sep) for a one-character sep: Split("", "/") is [""]
RECURSIVE SplitFrom(_, _, _, _)
SplitFrom(s, sep, i, cur) ==
    IF i > Len(s) THEN <<cur>>
    ELSE IF s[i] = sep THEN <<cur>> \o SplitFrom(s, sep, i + 1, EmptyStr)
    ELSE SplitFrom(s, sep, i + 1, Append(cur, s[i]))

Split(s, sep) == SplitFrom(s, sep, 1, EmptyStr)

\* strings.Join(parts, sep)
RECURSIVE JoinStr(_, _)
JoinStr(parts, sep) ==
    IF Len(parts) = 0 THEN EmptyStr
    ELSE IF Len(parts) = 1 THEN parts[1]
    ELSE parts[1] \o <<sep>> \o JoinStr(Tail(parts), sep)

DotDot == <<".", ".">>
Dot == <<".">>

\* the element stack filepath.Clean builds, one path element at a time
RECURSIVE CleanElems(_, _, _)
CleanElems(elems, rooted, out) ==
    IF Len(elems) = 0 THEN out
    ELSE LET e == Head(elems)
             rest == Tail(elems)
         IN  IF e = EmptyStr \/ e = Dot THEN CleanElems(rest, rooted, out)
             ELSE IF e = DotDot
                  THEN IF Len(out) > 0 /\ out[Len(out)] # DotDot
                       THEN CleanElems(rest, rooted, SubSeq(out, 1, Len(out) - 1))
                       ELSE IF rooted THEN CleanElems(rest, rooted, out)
                       ELSE CleanElems(rest, rooted, Append(out, e))
                  ELSE CleanElems(rest, rooted, Append(out, e))

IsAbs(path) == Len(path) > 0 /\ path[1] = Separator

\* filepath.Clean
Clean(path) ==
    IF path = EmptyStr THEN Dot
    ELSE LET rooted == IsAbs(path)
             out == CleanElems(Split(path, Separator), rooted, << >>)
         IN  IF rooted THEN <<Separator>> \o JoinStr(out, Separator)
             ELSE IF Len(out) = 0 THEN Dot
             ELSE JoinStr(out, Separator)

\* filepath.Join: empty elements are ignored, the result is cleaned
RECURSIVE FilepathJoin(_)
FilepathJoin(elems) ==
    IF Len(elems) = 0 THEN EmptyStr
    ELSE IF Head(elems) = EmptyStr THEN FilepathJoin(Tail(elems))
    ELSE Clean(JoinStr(elems, Separator))

\* filepath.ToSlash: every Separator becomes a slash
ToSlash(path) == [i \in 1..Len(path) |-> IF path[i] = Separator THEN "/" ELSE path[i]]

\* the elements Rel compares: "/" has the single element "", "/a" has "", "a"
RelElems(p) ==
    IF p = <<Separator>> THEN <<EmptyStr>> ELSE Split(p, Separator)

RECURSIVE CommonLen(_, _)
CommonLen(a, b) ==
    IF Len(a) = 0 \/ Len(b) = 0 \/ Head(a) # Head(b) THEN 0
    ELSE 1 + CommonLen(Tail(a), Tail(b))

\* Rel on the elements b of the base and t of the target, k of them common
RelFrom(b, t, k) ==
    IF k < Len(b) /\ b[k + 1] = DotDot
    THEN [err |-> TRUE, path |-> EmptyStr]
    ELSE [err |-> FALSE,
          path |-> JoinStr([i \in 1..(Len(b) - k) |-> DotDot] \o SubSeq(t, k + 1, Len(t)),
                           Separator)]

\* Rel on the cleaned base and target
RelClean(base, targ) ==
    IF targ = base THEN [err |-> FALSE, path |-> Dot]
    ELSE IF IsAbs(base) # IsAbs(targ) THEN [err |-> TRUE, path |-> EmptyStr]
    ELSE IF base = Dot THEN RelFrom(<< >>, RelElems(targ), 0)
    ELSE RelFrom(RelElems(base), RelElems(targ), CommonLen(RelElems(base), RelElems(targ)))

\* filepath.Rel(basepath, targpath): [err, path]
Rel(basepath, targpath) == RelClean(Clean(basepath), Clean(targpath))

(***************************************************************************)
(* The file systems the runs are on: functions from absolute, clean paths  *)
(* to [type, mode, target].  A file system does not change during a run.   *)
(***************************************************************************)
\* the markers of the backends (vcs.go, Contents)
M_git == <<".", "g", "i", "t">>
M_svn == <<".", "s", "v", "n">>
M_gitsvn == <<".", "g", "i", "t", "/", "s", "v", "n">>
M_hg == <<".", "h", "g">>
M_darcs == <<"_", "d", "a", "r", "c", "s">>
M_cvs == <<"C", "V", "S", "/", "R", "e", "p", "o", "s", "i", "t", "o", "r", "y">>
M_fslckout == <<".", "f", "s", "l", "c", "k", "o", "u", "t">>
M_FOSSIL == <<"_", "F", "O", "S", "S", "I", "L", "_">>
M_bzr == <<".", "b", "z", "r">>

Child(dir, name) ==
    IF dir = <<Separator>> THEN dir \o name ELSE dir \o <<Separator>> \o name

DirE(path, mode) == [path |-> path, type |-> "dir", mode |-> mode, target |-> EmptyStr]
LinkE(path, target) == [path |-> path, type |-> "symlink", mode |-> 511, target |-> target]
FileE(path) == [path |-> path, type |-> "file", mode |-> 420, target |-> EmptyStr]

\* the file system of a set of entries, one per path
RECURSIVE MakeFS(_)
MakeFSWith(e, entries) ==
    (e.path :> [type |-> e.type, mode |-> e.mode, target |-> e.target])
        @@ MakeFS(entries \ {e})

MakeFS(entries) ==
    IF entries = {} THEN << >> ELSE MakeFSWith(CHOOSE e \in entries : TRUE, entries)

P_root == <<Separator>>
P_r == <<"/", "r">>
P_r_h == Child(P_r, <<"h">>)
P_r_h_a == Child(P_r_h, <<"a">>)
P_r_h_a_s == Child(P_r_h_a, <<"s">>)
P_r_h_p == Child(P_r_h, <<"p">>)
P_r_h_p_c == Child(P_r_h_p, <<"c">>)
P_r_h_l == Child(P_r_h, <<"l">>)
P_r_f == Child(P_r, <<"f">>)
P_r_d == Child(P_r, <<"d">>)
P_r2 == <<"/", "r", "2">>
P_r2_h == Child(P_r2, <<"h">>)
P_r2_h_b == Child(P_r2_h, <<"b">>)
P_t == <<"/", "t">>
P_t_h == Child(P_t, <<"h">>)
P_t_h_a == Child(P_t_h, <<"a">>)
P_t_x == Child(P_t, <<"x">>)
P_q == <<"/", "q">>
P_q_g == Child(P_q, <<"g">>)
P_s == <<"/", "s">>
P_n == <<"/", "n">>

\* Three roots /r, /r2 and /t.  /r/h/a is a git working copy with another one,
\* /r/h/a/s, inside; /r/h/p/c is a Mercurial working copy below a directory of
\* mode pMode; /r/h/l links to the working copy /t/h/a, /r/d links to nothing,
\* /r/f is a file; /r2/h/b is a git-svn working copy; /q/g is an empty root
\* below a directory of mode qMode; /s links to /r.
WalkTree(pMode, r2Mode, qMode) ==
    {DirE(P_root, 493),
     DirE(P_r, 493), DirE(P_r_h, 493),
     DirE(P_r_h_a, 493), DirE(Child(P_r_h_a, M_git), 493),
     DirE(P_r_h_a_s, 493), DirE(Child(P_r_h_a_s, M_git), 493),
     DirE(P_r_h_p, pMode), DirE(P_r_h_p_c, 493), DirE(Child(P_r_h_p_c, M_hg), 493),
     LinkE(P_r_h_l, P_t_h_a), FileE(P_r_f), LinkE(P_r_d, P_t_x),
     DirE(P_r2, r2Mode), DirE(P_r2_h, 493),
     DirE(P_r2_h_b, 493), DirE(Child(P_r2_h_b, M_git), 493),
     DirE(Child(P_r2_h_b, M_gitsvn), 493),
     DirE(P_t, 493), DirE(P_t_h, 493),
     DirE(P_t_h_a, 493), DirE(Child(P_t_h_a, M_git), 493),
     DirE(P_q, qMode), DirE(P_q_g, 493),
     LinkE(P_s, P_r)}

\* the modes of /r/h/p, /r2 and /q
WalkModes == {<<493, 493, 493>>, <<0, 493, 493>>, <<493, 0, 493>>, <<493, 493, 0>>}

\* the file system of each of the modes
RECURSIVE WalkTable(_)
WalkTableWith(m, modes) ==
    (m :> MakeFS(WalkTree(m[1], m[2], m[3]))) @@ WalkTable(modes \ {m})

WalkTable(modes) ==
    IF modes = {} THEN << >> ELSE WalkTableWith(CHOOSE m \in modes : TRUE, modes)

WalkFileSystems == WalkTable(WalkModes)

P_d == <<"/", "d">>

\* the entries of a marker below dir: the marker and the directories above it
MarkerEntries(dir, marker) ==
    LET e == Split(marker, Separator)
    IN  {DirE(Child(dir, JoinStr(SubSeq(e, 1, k), Separator)), 493) : k \in 1..Len(e)}

DetectTree(markers) ==
    {DirE(P_root, 493), DirE(P_d, 493)} \cup UNION {MarkerEntries(P_d, m) : m \in markers}

DetectMarkers == {M_git, M_gitsvn, M_FOSSIL, M_cvs, M_svn}

\* the file system of each of the sets of markers
RECURSIVE DetectTable(_)
DetectTableWith(ms, sets) == (ms :> MakeFS(DetectTree(ms))) @@ DetectTable(sets \ {ms})

DetectTable(sets) ==
    IF sets = {} THEN << >> ELSE DetectTableWith(CHOOSE ms \in sets : TRUE, sets)

DetectFileSystems == DetectTable(SUBSET DetectMarkers)

VARIABLES
    fs,     \* the file system of the run: <<"walk", modes>> or <<"detect", markers>>
    cwd     \* the working directory, or NoDir once it has been removed

\* path -> [type: "dir" | "file" | "symlink", mode, target]
Files == IF fs[1] = "walk" THEN WalkFileSystems[fs[2]] ELSE DetectFileSystems[fs[2]]

NoDir == EmptyStr

RECURSIVE BitAnd(_, _)
BitAnd(a, b) ==
    IF a = 0 \/ b = 0 THEN 0
    ELSE (a % 2) * (b % 2) + 2 * BitAnd(a \div 2, b \div 2)

\* the non-empty elements of a path
Elems(path) == SelectSeq(Split(path, Separator), LAMBDA e : e # EmptyStr)

\* Name resolution as the kernel does it, from the real directory cur over the
\* remaining elements: every directory on the way needs the search bit, a
\* symbolic link is followed (the last one only with followLast).
\* [err: "nil" | "notexist" | "notdir" | "perm" | "loop", path, linked]
RECURSIVE Resolve(_, _, _, _, _)
Resolve(cur, rest, followLast, links, linked) ==
    IF Len(rest) = 0 THEN [err |-> "nil", path |-> cur, linked |-> linked]
    ELSE IF Files[cur].type # "dir" THEN [err |-> "notdir", path |-> cur, linked |-> linked]
    ELSE IF (Files[cur].mode \div 64) % 2 = 0 THEN [err |-> "perm", path |-> cur, linked |-> linked]
    ELSE LET next == Child(cur, Head(rest))
         IN  IF next \notin DOMAIN Files
             THEN [err |-> "notexist", path |-> next, linked |-> linked]
             ELSE IF Files[next].type = "symlink" /\ (followLast \/ Len(rest) > 1)
                  THEN IF links = 0
                       THEN [err |-> "loop", path |-> next, linked |-> linked]
                       ELSE Resolve(<<Separator>>, Elems(Files[next].target) \o Tail(rest),
                                    followLast, links - 1, TRUE)
                  ELSE Resolve(next, Tail(rest), followLast, links, linked)

\* a relative name is looked up from the working directory
Lookup(path, followLast) ==
    IF IsAbs(path) THEN Resolve(<<Separator>>, Elems(path), followLast, MaxLinks, FALSE)
    ELSE IF cwd = NoDir \/ cwd \notin DOMAIN Files
         THEN [err |-> "notexist", path |-> path, linked |-> FALSE]
         ELSE Resolve(<<Separator>>, Elems(cwd) \o Elems(path), followLast, MaxLinks, FALSE)

NoInfo == [type |-> "none", mode |-> 0]

\* the FileInfo of a finished lookup
InfoOf(r) ==
    IF r.err = "nil"
    THEN [err |-> "nil", fi |-> [type |-> Files[r.path].type, mode |-> Files[r.path].mode]]
    ELSE [err |-> r.err, fi |-> NoInfo]

\* os.Stat: [err, fi]; fi is NoInfo (a nil FileInfo) when err is not "nil"
Stat(path) == InfoOf(Lookup(path, TRUE))

\* os.Lstat
Lstat(path) == InfoOf(Lookup(path, FALSE))

RealPathOf(path, r) ==
    IF r.err # "nil" THEN [err |-> r.err, path |-> EmptyStr]
    ELSE IF IsAbs(path) \/ r.linked THEN [err |-> "nil", path |-> r.path]
    ELSE [err |-> "nil", path |-> Clean(path)]

\* filepath.EvalSymlinks: [err, path]; a relative name that crosses no link
\* stays relative
EvalSymlinks(path) == RealPathOf(path, Lookup(path, TRUE))

\* filepath.Abs: [err, path]; os.Getwd fails once the directory is gone
Abs(path) ==
    IF IsAbs(path) THEN [err |-> "nil", path |-> Clean(path)]
    ELSE IF cwd = NoDir THEN [err |-> "getwd", path |-> EmptyStr]
    ELSE [err |-> "nil", path |-> FilepathJoin(<<cwd, path>>)]

os_IsNotExist(err) == err = "notexist"
os_IsPermission(err) == err = "perm"

RECURSIVE LastSeparator(_, _)
LastSeparator(path, i) ==
    IF i = 0 \/ path[i] = Separator THEN i ELSE LastSeparator(path, i - 1)

\* filepath.Dir and filepath.Base of an absolute clean path
Dir(path) ==
    IF LastSeparator(path, Len(path)) <= 1 THEN <<Separator>>
    ELSE SubSeq(path, 1, LastSeparator(path, Len(path)) - 1)

BaseName(path) == SubSeq(path, LastSeparator(path, Len(path)) + 1, Len(path))

EntriesOf(r) ==
    IF r.err # "nil" THEN [err |-> r.err, names |-> {}]
    ELSE IF (Files[r.path].mode \div 256) % 2 = 0 THEN [err |-> "perm", names |-> {}]
    ELSE [err |-> "nil",
          names |-> {BaseName(q) :
                       q \in {x \in DOMAIN Files : x # <<Separator>> /\ Dir(x) = r.path}}]

\* Reading a directory, as the walker does: [err, names]; it needs the read bit
ReadDir(pathname) == EntriesOf(Lookup(pathname, TRUE))

(***************************************************************************)
(* vcs.go: the backends and the registry                                   *)
(***************************************************************************)
\* a backend is named by its variable; NoBackend is the nil *VCSBackend
NoBackend == "nil"
Backends ==
    {"GitBackend", "SubversionBackend", "GitsvnBackend", "MercurialBackend",
     "DarcsBackend", "cvsDummyBackend", "FossilBackend", "BazaarBackend"}

\* VCSBackend.Contents
Contents(backend) ==
    CASE backend = "GitBackend" -> <<M_git>>
      [] backend = "SubversionBackend" -> <<M_svn>>
      [] backend = "GitsvnBackend" -> <<M_gitsvn>>
      [] backend = "MercurialBackend" -> <<M_hg>>
      [] backend = "DarcsBackend" -> <<M_darcs>>
      [] backend = "cvsDummyBackend" -> <<M_cvs>>
      [] backend = "FossilBackend" -> <<M_fslckout, M_FOSSIL>>
      [] backend = "BazaarBackend" -> <<M_bzr>>

vcsRegistry ==
    [k \in {"git", "github", "svn", "subversion", "git-svn", "hg", "mercurial",
            "darcs", "fossil", "bzr", "bazaar"} |->
        CASE k \in {"git", "github"} -> "GitBackend"
          [] k \in {"svn", "subversion"} -> "SubversionBackend"
          [] k = "git-svn" -> "GitsvnBackend"
          [] k \in {"hg", "mercurial"} -> "MercurialBackend"
          [] k = "darcs" -> "DarcsBackend"
          [] k = "fossil" -> "FossilBackend"
          [] k \in {"bzr", "bazaar"} -> "BazaarBackend"]

\* What VCSBackend.Clone does: the directories it makes and the commands it
\* runs, in order.  <url> and <local> stand for remote.String() and local.
CloneSteps(backend, shallow) ==
    CASE backend = "GitBackend" ->
            <<<<"MkdirAll", "<dir>">>,
              IF shallow THEN <<"git", "clone", "--depth", "1", "<url>", "<local>">>
              ELSE <<"git", "clone", "<url>", "<local>">> >>
      [] backend = "SubversionBackend" ->
            <<<<"MkdirAll", "<dir>">>,
              IF shallow THEN <<"svn", "checkout", "--depth", "1", "<url>", "<local>">>
              ELSE <<"svn", "checkout", "<url>", "<local>">> >>
      [] backend = "GitsvnBackend" ->
            <<<<"MkdirAll", "<dir>">>, <<"git", "svn", "clone", "<url>", "<local>">> >>
      [] backend = "MercurialBackend" ->
            <<<<"MkdirAll", "<dir>">>, <<"hg", "clone", "<url>", "<local>">> >>
      [] backend = "DarcsBackend" ->
            <<<<"MkdirAll", "<dir>">>,
              IF shallow THEN <<"darcs", "get", "--lazy", "<url>", "<local>">>
              ELSE <<"darcs", "get", "<url>", "<local>">> >>
      [] backend = "cvsDummyBackend" -> << >>
      [] backend = "FossilBackend" ->
            <<<<"MkdirAll", "<local>">>,
              <<"fossil", "clone", "<url>", "<local>/.fossil">>,
              <<"fossil", "open", ".fossil">> >>
      [] backend = "BazaarBackend" ->
            <<<<"MkdirAll", "<dir>">>, <<"bzr", "branch", "<url>", "<local>">> >>

\* What VCSBackend.Update runs in <local>
UpdateSteps(backend) ==
    CASE backend = "GitBackend" -> <<<<"git", "pull", "--ff-only">> >>
      [] backend = "SubversionBackend" -> <<<<"svn", "update">> >>
      [] backend = "GitsvnBackend" -> <<<<"git", "svn", "rebase">> >>
      [] backend = "MercurialBackend" -> <<<<"hg", "pull", "--update">> >>
      [] backend = "DarcsBackend" -> <<<<"darcs", "pull">> >>
      [] backend = "cvsDummyBackend" -> << >>
      [] backend = "FossilBackend" -> <<<<"fossil", "update">> >>
      [] backend = "BazaarBackend" -> <<<<"bzr", "pull", "--overwrite">> >>

\* A run of Clone or Update: the steps are taken in order and the first that
\* fails (failAt) ends the run with its error; the CVS dummy has no step and
\* returns its own error.  [err, ran]
RunSteps(backend, steps, failAt, unsupported) ==
    IF backend = "cvsDummyBackend" THEN [err |-> unsupported, ran |-> << >>]
    ELSE IF failAt \in 1..Len(steps)
         THEN [err |-> "failed", ran |-> SubSeq(steps, 1, failAt)]
         ELSE [err |-> "nil", ran |-> steps]

Clone(backend, shallow, failAt) ==
    RunSteps(backend, CloneSteps(backend, shallow), failAt, "CVS clone is not supported")

Update(backend, failAt) ==
    RunSteps(backend, UpdateSteps(backend), failAt, "CVS update is not supported")

(***************************************************************************)
(* local_repository.go: init and findVCSBackend                            *)
(***************************************************************************)
VARIABLES
    findVcs,         \* git config --get-all ghq.findVcs: a sequence of kind names
    vcsContentsMap,  \* marker -> backend
    vcsContents      \* the markers, as init sorted them

Range(seq) == {seq[i] : i \in 1..Len(seq)}

\* the backends whose markers init registers
InitBackends(vcses) ==
    IF Len(vcses) = 0 THEN {vcsRegistry[k] : k \in DOMAIN vcsRegistry}
    ELSE {vcsRegistry[v] : v \in {x \in Range(vcses) : x \in DOMAIN vcsRegistry}}

\* vcsContentsMap as init fills it
InitContentsMap(vcses) ==
    LET bs == InitBackends(vcses)
        keys == UNION {Range(Contents(b)) : b \in bs}
    IN  [c \in keys |-> CHOOSE b \in bs : c \in Range(Contents(b))]

\* the comparison init gives sort.Slice
\* the comparison turned round: shorter markers first
LessByLengthAscending(a, b) == Len(a) < Len(b)

LessByLength(a, b) == Len(a) > Len(b)

\* The orders sort.Slice can leave the keys in: the keys come out of the map in
\* any order and the sort is not stable, so any order that the comparison
\* does not contradict.
RECURSIVE SortedOrders(_)
SortedOrders(keys) ==
    IF keys = {} THEN {<< >>}
    ELSE LET first == {x \in keys : \A y \in keys : ~LessByLength(y, x)}
         IN  UNION {{<<x>> \o rest : rest \in SortedOrders(keys \ {x})} : x \in first}

\* findVCSBackend: the first marker, in vcsContents order, that exists below fpath
RECURSIVE FirstPresent(_, _)
FirstPresent(fpath, markers) ==
    IF Len(markers) = 0 THEN NoBackend
    ELSE IF Stat(FilepathJoin(<<fpath, Head(markers)>>)).err = "nil"
         THEN vcsContentsMap[Head(markers)]
         ELSE FirstPresent(fpath, Tail(markers))

findVCSBackend(fpath) == FirstPresent(fpath, vcsContents)

(***************************************************************************)
(* local_repository.go: localRepositoryRoots                               *)
(***************************************************************************)
VARIABLES
    envRoot,                \* os.Getenv("GHQ_ROOT")
    gitRoots,               \* gitconfig.PathAll("ghq.root"): [err, list]
    home,                   \* os.UserHomeDir(): [err, path]
    localRepositoryRoots_,  \* the package variable _localRepositoryRoots
    rootsReturned           \* what the calls of localRepositoryRoots returned so far

ListSeparator == ":"

\* filepath.SplitList
SplitList(path) == IF path = EmptyStr THEN << >> ELSE Split(path, ListSeparator)

DotGhq == <<".", "g", "h", "q">>

\* One entry of the normalising loop: path is the cleaned entry and st its
\* os.Stat; the symbolic links of an existing path are resolved.  [err, path]
NormalizeResolve(path, st) ==
    IF st.err = "nil" THEN EvalSymlinks(path) ELSE [err |-> "nil", path |-> path]

\* ... and a relative path is made absolute.  [err, path]
NormalizeAbs(ev) ==
    IF ev.err # "nil" THEN ev
    ELSE IF ~IsAbs(ev.path) THEN Abs(ev.path)
    ELSE ev

NormalizeEntry(v) == NormalizeAbs(NormalizeResolve(Clean(v), Stat(Clean(v))))

\* The normalising loop of localRepositoryRoots from index i on: list is the
\* package variable, written in place; the loop returns at the first error.
\* [err, list]
RECURSIVE NormalizeFrom(_, _)
NormalizeStep(list, i, e) ==
    IF e.err # "nil" THEN [err |-> e.err, list |-> list]
    ELSE NormalizeFrom([list EXCEPT ![i] = e.path], i + 1)

NormalizeFrom(list, i) ==
    IF i > Len(list) THEN [err |-> "nil", list |-> list]
    ELSE NormalizeStep(list, i, NormalizeEntry(list[i]))

\* what localRepositoryRoots returns after the loop n
RootsResult(n) ==
    IF n.err # "nil"
    THEN [err |-> n.err, ret |-> << >>, memo |-> n.list]
    ELSE [err |-> "nil", ret |-> n.list, memo |-> n.list]

\* localRepositoryRoots from the list l1 of the environment or the
\* configuration: the default root stands in for an empty list
RootsFrom(l1) ==
    IF Len(l1) = 0 /\ home.err # "nil"
    THEN [err |-> home.err, ret |-> << >>, memo |-> l1]
    ELSE IF Len(l1) = 0
    THEN RootsResult(NormalizeFrom(<<FilepathJoin(<<home.path, DotGhq>>)>>, 1))
    ELSE RootsResult(NormalizeFrom(l1, 1))

\* One call of localRepositoryRoots with the package variable holding memo:
\* [err, ret, memo], ret the list returned and memo the package variable after
\* the call
localRepositoryRoots(memo) ==
    IF Len(memo) # 0 THEN [err |-> "nil", ret |-> memo, memo |-> memo]
    ELSE IF envRoot # EmptyStr THEN RootsFrom(SplitList(envRoot))
    ELSE IF gitRoots.err \notin {"nil", "notfound"}
    THEN [err |-> gitRoots.err, ret |-> << >>, memo |-> gitRoots.list]
    ELSE RootsFrom(gitRoots.list)

PrimaryOf(r) ==
    IF r.err # "nil" THEN [err |-> r.err, path |-> EmptyStr, memo |-> r.memo]
    ELSE [err |-> "nil", path |-> r.ret[1], memo |-> r.memo]

\* primaryLocalRepositoryRoot: [err, path, memo]
primaryLocalRepositoryRoot(memo) == PrimaryOf(localRepositoryRoots(memo))

(***************************************************************************)
(* local_repository.go: LocalRepository                                    *)
(***************************************************************************)
NoRepo == [FullPath |-> EmptyStr, RelPath |-> EmptyStr, RootPath |-> EmptyStr,
           PathParts |-> << >>, vcsBackend |-> NoBackend, isNil |-> TRUE]

\* The loop of LocalRepositoryFromFullPath over the roots from index i on;
\* root is the loop variable, which keeps the last value it was given.
\* [relPath, root]
RECURSIVE FindRoot(_, _, _, _)
FindRootRel(fullPath, roots, i, r) ==
    IF ~r.err THEN [relPath |-> r.path, root |-> roots[i]]
    ELSE FindRoot(fullPath, roots, i + 1, roots[i])

FindRoot(fullPath, roots, i, root) ==
    IF i > Len(roots) THEN [relPath |-> EmptyStr, root |-> root]
    ELSE IF ~HasPrefix(fullPath, roots[i]) THEN FindRoot(fullPath, roots, i + 1, roots[i])
    ELSE FindRootRel(fullPath, roots, i, Rel(roots[i], fullPath))

\* the LocalRepository of LocalRepositoryFromFullPath, f being what its loop found
RepositoryAt(fullPath, backend, f) ==
    IF f.relPath = EmptyStr
    THEN [err |-> "no local repository found", repo |-> NoRepo]
    ELSE [err |-> "nil",
          repo |-> [FullPath |-> fullPath,
                    RelPath |-> ToSlash(f.relPath),
                    RootPath |-> f.root,
                    PathParts |-> Split(f.relPath, Separator),
                    vcsBackend |-> backend,
                    isNil |-> FALSE]]

FromFullPathIn(fullPath, backend, rs) ==
    IF rs.err # "nil" THEN [err |-> rs.err, repo |-> NoRepo]
    ELSE RepositoryAt(fullPath, backend, FindRoot(fullPath, rs.ret, 1, EmptyStr))

\* LocalRepositoryFromFullPath, with the package variable holding memo:
\* [err, repo]
LocalRepositoryFromFullPath(fullPath, backend, memo) ==
    FromFullPathIn(fullPath, backend, localRepositoryRoots(memo))

DotGit == <<".", "g", "i", "t">>

URLPathOf(pathParts) ==
    [relPath |-> TrimSuffix(FilepathJoin(pathParts), DotGit),
     pathParts |-> [pathParts EXCEPT
                      ![Len(pathParts)] = TrimSuffix(pathParts[Len(pathParts)], DotGit)]]

\* the first statements of LocalRepositoryFromURL: [relPath, pathParts]
URLPath(u) == URLPathOf(<<u.host>> \o Split(u.path, "/"))

\* the LocalRepository that LocalRepositoryFromURL makes when it found none
NewRepository(prim, relPath, pathParts) ==
    [FullPath |-> FilepathJoin(<<prim, relPath>>),
     RelPath |-> relPath,
     RootPath |-> prim,
     PathParts |-> pathParts,
     vcsBackend |-> NoBackend,
     isNil |-> FALSE]

\* LocalRepository.Subpaths
Subpaths(repo) ==
    LET n == Len(repo.PathParts)
    IN  [i \in 1..n |-> JoinStr(SubSeq(repo.PathParts, n - i + 1, n), "/")]

\* LocalRepository.Matches
Matches(repo, pathQuery) == \E i \in 1..Len(Subpaths(repo)) : Subpaths(repo)[i] = pathQuery

(***************************************************************************)
(* local_repository.go: walkLocalRepositories and LocalRepositoryFromURL   *)
(***************************************************************************)
VARIABLES
    pc,               \* "main", "loop", "walking", "return", "done", "panic"
    remoteURL,        \* the argument of LocalRepositoryFromURL: [host, path]
    relPath,          \* its local relPath
    pathParts,        \* its local pathParts
    localRepository,  \* its local localRepository, written by the callback
    roots,            \* the local roots of walkLocalRepositories
    rootIdx,          \* the index of the root the loop is at
    pending,          \* the entries the walker has yet to visit
    visits,           \* the calls of walkFn so far: [root, path, ret, isSymlink, called]
    reported,         \* the calls of the callback so far, in order: [root, repo]
    walkErr,          \* what walkLocalRepositories returned ("unset" before)
    result,           \* what LocalRepositoryFromURL returned: [err, repo, synthesized]
    detected,         \* what the last call of findVCSBackend returned
    lastOp,           \* the last call of a backend's Clone or Update
    nOps              \* the calls of Clone and Update so far

WalkFnSkip(isSymlink) ==
    [ret |-> "nil", called |-> FALSE, repo |-> NoRepo, isSymlink |-> isSymlink]

\* walkFn that never prunes: nil after every call of the callback
WalkFnCallNoSkip(isSymlink, r) ==
    IF r.err # "nil" \/ r.repo.isNil THEN WalkFnSkip(isSymlink)
    ELSE [ret |-> "nil", called |-> TRUE, repo |-> r.repo, isSymlink |-> isSymlink]

\* walkFn from the call of the callback on
WalkFnCall(isSymlink, r) ==
    IF r.err # "nil" \/ r.repo.isNil THEN WalkFnSkip(isSymlink)
    ELSE [ret |-> IF isSymlink THEN "nil" ELSE "SkipDir",
          called |-> TRUE, repo |-> r.repo, isSymlink |-> isSymlink]

\* walkFn from the detection on
WalkFnDetect(fpath, isSymlink, vcsBackend, memo) ==
    IF vcsBackend = NoBackend THEN WalkFnSkip(isSymlink)
    ELSE WalkFnCall(isSymlink, LocalRepositoryFromFullPath(fpath, vcsBackend, memo))

\* walkFn from fi.IsDir() on
WalkFnDir(fpath, isSymlink, fi, memo) ==
    IF fi.type # "dir" THEN WalkFnSkip(isSymlink)
    ELSE WalkFnDetect(fpath, isSymlink, findVCSBackend(fpath), memo)

\* walkFn on a symbolic link: ev is filepath.EvalSymlinks(fpath)
WalkFnLinkStat(fpath, st, memo) ==
    IF st.err # "nil" THEN WalkFnSkip(TRUE) ELSE WalkFnDir(fpath, TRUE, st.fi, memo)

WalkFnLink(fpath, ev, memo) ==
    IF ev.err # "nil" THEN WalkFnSkip(TRUE) ELSE WalkFnLinkStat(fpath, Stat(ev.path), memo)

\* walkFn on one entry: [ret: "nil" | "SkipDir", called, repo, isSymlink]
walkFn(fpath, fi, memo) ==
    IF fi.type = "symlink" THEN WalkFnLink(fpath, EvalSymlinks(fpath), memo)
    ELSE WalkFnDir(fpath, FALSE, fi, memo)

\* an error callback that swallows nothing
errCbStrict(err) == err

\* the error callback given to the walker
errCb(err) == IF os_IsPermission(err) THEN "nil" ELSE err

\* a callback that records no match
FromURLCallbackIgnoring(cur, repo, rel) == cur

\* the callback LocalRepositoryFromURL gives the walk: the new value of its
\* localRepository
FromURLCallback(cur, repo, rel) == IF repo.RelPath = rel THEN repo ELSE cur

\* the mode bits walkLocalRepositories wants of a root
ReadBits == 292

RootUnreadable(fi) == BitAnd(fi.mode, ReadBits) = 0

walkVars == <<roots, rootIdx, pending, visits, reported, walkErr>>
urlVars == <<remoteURL, relPath, pathParts, localRepository, result>>
envVars == <<fs, cwd, findVcs, vcsContentsMap, vcsContents, envRoot, gitRoots, home>>
detectVars == <<detected, lastOp, nOps>>

\* the program calls localRepositoryRoots (as `ghq root` does)
CallRoots ==
    /\ pc = "main"
    /\ LET r == localRepositoryRoots(localRepositoryRoots_)
       IN  /\ localRepositoryRoots_' = r.memo
           /\ rootsReturned' = rootsReturned \cup {[err |-> r.err, ret |-> r.ret]}
    /\ UNCHANGED <<pc, walkVars, urlVars, envVars, detectVars>>

\* LocalRepositoryFromURL(u) up to the first statement of walkLocalRepositories
CallFromURL(u) ==
    /\ pc = "main"
    /\ remoteURL' = u
    /\ relPath' = URLPath(u).relPath
    /\ pathParts' = URLPath(u).pathParts
    /\ LET r == localRepositoryRoots(localRepositoryRoots_)
       IN  /\ localRepositoryRoots_' = r.memo
           /\ rootsReturned' = rootsReturned \cup {[err |-> r.err, ret |-> r.ret]}
           /\ IF r.err # "nil"
              THEN /\ walkErr' = r.err
                   /\ pc' = "return"
                   /\ UNCHANGED <<roots, rootIdx>>
              ELSE /\ roots' = r.ret
                   /\ rootIdx' = 1
                   /\ pc' = "loop"
                   /\ UNCHANGED walkErr
    /\ UNCHANGED <<localRepository, result, pending, visits, reported,
                   envVars, detectVars>>

AtRoot == pc = "loop" /\ rootIdx <= Len(roots)

\* the loop over the roots: a root that does not exist is skipped
WalkRootSkip ==
    /\ AtRoot
    /\ Stat(roots[rootIdx]).err # "nil"
    /\ os_IsNotExist(Stat(roots[rootIdx]).err)
    /\ rootIdx' = rootIdx + 1
    /\ UNCHANGED <<pc, roots, pending, visits, reported, walkErr, urlVars,
                   envVars, detectVars, localRepositoryRoots_, rootsReturned>>

\* os.Stat failed otherwise: fi is nil and fi.Mode() panics
WalkRootNilInfo ==
    /\ AtRoot
    /\ Stat(roots[rootIdx]).err # "nil"
    /\ ~os_IsNotExist(Stat(roots[rootIdx]).err)
    /\ pc' = "panic"
    /\ UNCHANGED <<walkVars, urlVars, envVars, detectVars,
                   localRepositoryRoots_, rootsReturned>>

\* a root with no read bit: return os.ErrPermission
WalkRootUnreadable ==
    /\ AtRoot
    /\ Stat(roots[rootIdx]).err = "nil"
    /\ RootUnreadable(Stat(roots[rootIdx]).fi)
    /\ walkErr' = "perm"
    /\ pc' = "return"
    /\ UNCHANGED <<roots, rootIdx, pending, visits, reported, urlVars,
                   envVars, detectVars, localRepositoryRoots_, rootsReturned>>

\* walker.Walk(root, walkFn, errCb) starts with the root itself
WalkRootStart ==
    /\ AtRoot
    /\ Stat(roots[rootIdx]).err = "nil"
    /\ ~RootUnreadable(Stat(roots[rootIdx]).fi)
    /\ IF Lstat(roots[rootIdx]).err = "nil"
       THEN /\ pending' = {roots[rootIdx]}
            /\ pc' = "walking"
            /\ UNCHANGED walkErr
       ELSE /\ walkErr' = Lstat(roots[rootIdx]).err
            /\ pc' = "return"
            /\ UNCHANGED pending
    /\ UNCHANGED <<roots, rootIdx, visits, reported, urlVars,
                   envVars, detectVars, localRepositoryRoots_, rootsReturned>>

\* One worker of the walker takes the entry p: walkFn, the callback, and, for a
\* directory that was not skipped, the reading of its entries.
WalkVisit(p) ==
    /\ pc = "walking"
    /\ p \in pending
    /\ \E fi \in {Lstat(p).fi} :
       \E w \in {walkFn(p, fi, localRepositoryRoots_)} :
       \E rd \in {IF w.ret = "nil" /\ fi.type = "dir" THEN ReadDir(p)
                   ELSE [err |-> "nil", names |-> {}]} :
       \E err \in {IF rd.err # "nil" THEN errCb(rd.err) ELSE "nil"} :
       \E left \in {(pending \ {p}) \cup {Child(p, n) : n \in rd.names}} :
           /\ visits' = visits \cup {[root |-> rootIdx, path |-> p, ret |-> w.ret,
                                      isSymlink |-> w.isSymlink, called |-> w.called]}
           /\ reported' = IF w.called
                           THEN Append(reported, [root |-> rootIdx, repo |-> w.repo])
                           ELSE reported
           /\ localRepository' = IF w.called
                                  THEN FromURLCallback(localRepository, w.repo, relPath)
                                  ELSE localRepository
           /\ IF err # "nil"
              THEN /\ walkErr' = err
                   /\ pending' = {}
                   /\ pc' = "return"
                   /\ UNCHANGED rootIdx
              ELSE /\ pending' = left
                   /\ pc' = IF left = {} THEN "loop" ELSE "walking"
                   /\ rootIdx' = IF left = {} THEN rootIdx + 1 ELSE rootIdx
                   /\ UNCHANGED walkErr
    /\ UNCHANGED <<roots, remoteURL, relPath, pathParts, result,
                   envVars, detectVars, localRepositoryRoots_, rootsReturned>>

\* every root was walked: walkLocalRepositories returns nil
WalkDone ==
    /\ pc = "loop"
    /\ rootIdx > Len(roots)
    /\ walkErr' = "nil"
    /\ pc' = "return"
    /\ UNCHANGED <<roots, rootIdx, pending, visits, reported, urlVars,
                   envVars, detectVars, localRepositoryRoots_, rootsReturned>>

\* LocalRepositoryFromURL after the walk
FromURLReturn ==
    /\ pc = "return"
    /\ pc' = "done"
    /\ IF walkErr # "nil"
       THEN /\ result' = [err |-> walkErr, repo |-> NoRepo, synthesized |-> FALSE]
            /\ UNCHANGED <<localRepositoryRoots_, rootsReturned>>
       ELSE IF ~localRepository.isNil
       THEN /\ result' = [err |-> "nil", repo |-> localRepository, synthesized |-> FALSE]
            /\ UNCHANGED <<localRepositoryRoots_, rootsReturned>>
       ELSE LET prim == primaryLocalRepositoryRoot(localRepositoryRoots_)
            IN  /\ localRepositoryRoots_' = prim.memo
                /\ rootsReturned' = rootsReturned \cup
                       {[err |-> prim.err,
                         ret |-> localRepositoryRoots(localRepositoryRoots_).ret]}
                /\ result' = IF prim.err # "nil"
                              THEN [err |-> prim.err, repo |-> NoRepo, synthesized |-> FALSE]
                              ELSE [err |-> "nil",
                                    repo |-> NewRepository(prim.path, relPath, pathParts),
                                    synthesized |-> TRUE]
    /\ UNCHANGED <<remoteURL, relPath, pathParts, localRepository,
                   walkVars, envVars, detectVars>>

(***************************************************************************)
(* Calls of the detector and of the backends                               *)
(***************************************************************************)
NoOp == [op |-> "none"]

\* findVCSBackend on the directory /d
CallFindVCSBackend ==
    /\ pc = "main"
    /\ detected' = findVCSBackend(P_d)
    /\ UNCHANGED <<lastOp, nOps, pc, walkVars, urlVars, envVars,
                   localRepositoryRoots_, rootsReturned>>

\* backend.Clone(remote, local, shallow, silent); step failAt fails (0: none)
CallClone(backend, shallow, failAt) ==
    /\ pc = "main"
    /\ nOps < MaxOps
    /\ nOps' = nOps + 1
    /\ failAt \in 0..Len(CloneSteps(backend, shallow))
    /\ lastOp' = [op |-> "Clone", backend |-> backend, shallow |-> shallow,
                  res |-> Clone(backend, shallow, failAt)]
    /\ UNCHANGED <<detected, pc, walkVars, urlVars, envVars,
                   localRepositoryRoots_, rootsReturned>>

\* backend.Update(local, silent)
CallUpdate(backend, failAt) ==
    /\ pc = "main"
    /\ nOps < MaxOps
    /\ nOps' = nOps + 1
    /\ failAt \in 0..Len(UpdateSteps(backend))
    /\ lastOp' = [op |-> "Update", backend |-> backend, shallow |-> FALSE,
                  res |-> Update(backend, failAt)]
    /\ UNCHANGED <<detected, pc, walkVars, urlVars, envVars,
                   localRepositoryRoots_, rootsReturned>>

(***************************************************************************)
(* The file systems and settings the runs start from                       *)
(***************************************************************************)
\* GHQ_ROOT: a path list
PathList(paths) == JoinStr(paths, ListSeparator)

EnvRoots ==
    {PathList(<<P_r, P_t>>), PathList(<<P_t, P_r>>),
     PathList(<<P_r, P_r2>>), PathList(<<P_r2, P_r>>),
     PathList(<<P_s \o <<"/">>, P_n>>),
     PathList(<<<<"h">>, P_r>>),
     PathList(<<P_q_g, P_r>>),
     PathList(<<P_r_h, P_r>>)}

GitRoots ==
    {[err |-> "nil", list |-> <<P_t, P_r>>], [err |-> "notfound", list |-> << >>],
     [err |-> "exit", list |-> << >>]}

Homes == {[err |-> "nil", path |-> P_t], [err |-> "HOME is not defined", path |-> EmptyStr]}

URLs ==
    {[host |-> <<"h">>, path |-> <<"/", "a", ".", "g", "i", "t">>],
     [host |-> <<"h">>, path |-> <<"/", "z">>]}

\* the variables of the program before main runs
InitProgram ==
    /\ localRepositoryRoots_ = << >>
    /\ rootsReturned = {}
    /\ pc = "main"
    /\ remoteURL = [host |-> EmptyStr, path |-> EmptyStr]
    /\ relPath = EmptyStr
    /\ pathParts = << >>
    /\ localRepository = NoRepo
    /\ roots = << >>
    /\ rootIdx = 0
    /\ pending = {}
    /\ visits = {}
    /\ reported = << >>
    /\ walkErr = "unset"
    /\ result = [err |-> "unset", repo |-> NoRepo, synthesized |-> FALSE]
    /\ detected = "unset"
    /\ lastOp = NoOp
    /\ nOps = 0

\* init(): the marker table for the configured ghq.findVcs
InitMarkers ==
    /\ vcsContentsMap = InitContentsMap(findVcs)
    /\ vcsContents \in SortedOrders(DOMAIN InitContentsMap(findVcs))

\* No directory of WalkTree holds two markers of one length, so the order of
\* equal-length markers changes no result of a walk: the walks start from two
\* of the orders init can leave.
WalkOrders ==
    LET all == SortedOrders(DOMAIN InitContentsMap(<< >>))
        one == CHOOSE o \in all : TRUE
    IN  {one, CHOOSE o \in all : \A i \in 1..Len(o) : Len(o[i]) = Len(one[i]) => o[i] # one[i] \/ Len(o[i]) \notin {4, 8}}

Init ==
    /\ fs \in {<<"walk", m>> : m \in WalkModes}
    /\ cwd \in {P_t, NoDir}
    /\ \/ /\ envRoot \in EnvRoots
          /\ gitRoots = [err |-> "notfound", list |-> << >>]
          /\ home = [err |-> "nil", path |-> P_t]
       \/ /\ envRoot = EmptyStr
          /\ gitRoots \in GitRoots
          /\ home \in Homes
    /\ findVcs = << >>
    /\ vcsContentsMap = InitContentsMap(findVcs)
    /\ vcsContents \in WalkOrders
    /\ InitProgram

Next ==
    \/ CallRoots
    \/ \E u \in URLs : CallFromURL(u)
    \/ WalkRootSkip
    \/ WalkRootNilInfo
    \/ WalkRootUnreadable
    \/ WalkRootStart
    \/ \E p \in pending : WalkVisit(p)
    \/ WalkDone
    \/ FromURLReturn

vars == <<fs, cwd, findVcs, vcsContentsMap, vcsContents,
          envRoot, gitRoots, home, localRepositoryRoots_, rootsReturned,
          pc, remoteURL, relPath, pathParts, localRepository,
          roots, rootIdx, pending, visits, reported, walkErr, result,
          detected, lastOp, nOps>>

Spec == Init /\ [][Next]_vars

(***************************************************************************)
(* The detector and the backends on their own: one directory /d holding    *)
(* any of the markers, under any of the ghq.findVcs settings.              *)
(***************************************************************************)
FindVcsSettings ==
    {<< >>, <<"git">>, <<"git-svn">>, <<"git", "git-svn">>, <<"github", "svn">>,
     <<"fossil", "git-svn", "git">>, <<"cvs">>}

InitDetect ==
    /\ fs \in {<<"detect", ms>> : ms \in SUBSET DetectMarkers}
    /\ cwd = P_root
    /\ envRoot = EmptyStr
    /\ gitRoots = [err |-> "notfound", list |-> << >>]
    /\ home = [err |-> "nil", path |-> P_root]
    /\ findVcs \in FindVcsSettings
    /\ InitMarkers
    /\ InitProgram

NextDetect ==
    \/ CallFindVCSBackend
    \/ \E b \in Backends, shallow \in BOOLEAN, failAt \in 0..3 : CallClone(b, shallow, failAt)
    \/ \E b \in Backends, failAt \in 0..1 : CallUpdate(b, failAt)

SpecDetect == InitDetect /\ [][NextDetect]_vars

(***************************************************************************)
(* Properties                                                              *)
(***************************************************************************)
Exists(path) == Stat(path).err = "nil"

WalkReturned == pc \in {"return", "done"}

\* p is strictly below dir
Below(p, dir) == HasPrefix(p, Child(dir, EmptyStr))

\* the directories from root down to p, p excluded
Above(p, root) == {a \in DOMAIN Files : a = root \/ (Below(a, root) /\ Below(p, a))}

\* a directory that holds a marker of the table
HoldsMarker(p) == \E i \in 1..Len(vcsContents) : Exists(Child(p, vcsContents[i]))

\* The walk of root can reach p: every directory above it can be read and
\* searched, and none of them holds a marker.
Reachable(p, root) ==
    /\ Below(p, root)
    /\ \A a \in Above(p, root) :
          /\ Files[a].type = "dir"
          /\ (Files[a].mode \div 256) % 2 = 1
          /\ (Files[a].mode \div 64) % 2 = 1
          /\ ~HoldsMarker(a)

\* the working copies the walk of root is to find
WorkingCopies(root) ==
    {p \in DOMAIN Files : Files[p].type = "dir" /\ Reachable(p, root) /\ HoldsMarker(p)}

Reports == {reported[k] : k \in 1..Len(reported)}

\* C1 (as claimed): when the walk has returned nil, every working copy D below
\* a root R was given to the callback with FullPath = D, RootPath = R and
\* RelPath the slash-normalized path of D relative to R.
C1_EveryWorkingCopyUnderItsRoot ==
    (WalkReturned /\ walkErr = "nil") =>
        \A i \in 1..Len(roots) : \A d \in WorkingCopies(roots[i]) :
            \E r \in Reports :
                /\ r.root = i
                /\ r.repo.FullPath = d
                /\ r.repo.RootPath = roots[i]
                /\ r.repo.RelPath = ToSlash(Rel(roots[i], d).path)

\* the markers of the directory /d
Holds(marker) == Exists(Child(P_d, marker))

Registered(vcses) == \A i \in 1..Len(vcses) : vcses[i] \in DOMAIN vcsRegistry

\* C2 (as claimed): findVCSBackend on a directory holding both .git and
\* .git/svn returns the git-svn backend, whatever ghq.findVcs names.
C2_GitSvnWhateverTheOverride ==
    (detected # "unset" /\ Holds(M_git) /\ Holds(M_gitsvn) /\ Registered(findVcs)) =>
        detected = "GitsvnBackend"

\* another marker of the table that is in /d and is checked no later than .git/svn may be
LongerPresent ==
    \E m \in DOMAIN vcsContentsMap :
        m # M_gitsvn /\ Len(m) >= Len(M_gitsvn) /\ Holds(m)

\* C2 (amended): when the table init built holds the .git/svn marker (no
\* ghq.findVcs, or one that names git-svn), findVCSBackend on a directory
\* holding both .git and .git/svn never returns the git backend, and returns
\* the git-svn backend unless the directory also holds another marker of the
\* table that is at least as long as .git/svn.
C2_GitSvnBeforeGit ==
    (detected # "unset" /\ Holds(M_git) /\ Holds(M_gitsvn)
       /\ M_gitsvn \in DOMAIN vcsContentsMap) =>
        /\ detected # "GitBackend"
        /\ ~LongerPresent => detected = "GitsvnBackend"

C2_Witness ==
    /\ detected = "GitsvnBackend"
    /\ Holds(M_git) /\ Holds(M_gitsvn)
    /\ findVcs = <<"git", "git-svn">>

\* the repositories the callback was given whose RelPath is the URL's
Matching == {r \in Reports : r.repo.RelPath = relPath}

\* C3 (as claimed): whenever the walk reported a repository whose RelPath is
\* the URL's, LocalRepositoryFromURL returns one of those and synthesizes
\* none; it synthesizes one only when none was reported.
C3_ReturnsExistingWheneverReported ==
    pc = "done" =>
        /\ Matching # {} =>
              /\ result.err = "nil"
              /\ ~result.synthesized
              /\ \E r \in Matching : result.repo = r.repo
        /\ result.synthesized => Matching = {}

\* C3 (amended): whenever the walk returned nil and reported a repository
\* whose RelPath is the URL's, LocalRepositoryFromURL returns one of those and
\* synthesizes none; it synthesizes one only when the walk returned nil and
\* reported none; when the walk returned an error, LocalRepositoryFromURL
\* returns that error and no repository.
C3_ReturnsExistingWhenWalkSucceeds ==
    pc = "done" =>
        /\ (walkErr = "nil" /\ Matching # {}) =>
              /\ result.err = "nil"
              /\ ~result.synthesized
              /\ \E r \in Matching : result.repo = r.repo
        /\ result.synthesized => (walkErr = "nil" /\ Matching = {})
        /\ walkErr # "nil" => (result.err = walkErr /\ result.repo.isNil)

C3_Witness ==
    /\ pc = "done"
    /\ walkErr = "nil"
    /\ Matching # {}
    /\ result.err = "nil"
    /\ result.repo.FullPath = P_r_h_a
    /\ result.repo.RootPath = P_r

UnreadableRoot(i) ==
    /\ Stat(roots[i]).err = "nil"
    /\ BitAnd(Stat(roots[i]).fi.mode, 292) = 0

MissingRoot(i) == Stat(roots[i]).err = "notexist"

\* the walk's visits of a directory it could not read
Denied == {v \in visits : v.ret = "nil" /\ ~v.isSymlink /\ ReadDir(v.path).err = "perm"}

\* C4: an existing root with none of the bits 0444 makes the walk return a
\* permission error, with no root after it walked and never nil; a root that
\* does not exist is passed without an error; a directory below a root that
\* cannot be read is left out, nothing below it is visited, and the walk
\* returns a permission error for an unreadable root only: when it returns
\* nil, every working copy it could reach was reported.
C4_UnreadableRootFatalSubtreeOmitted ==
    /\ \A i \in 1..Len(roots) :
          /\ UnreadableRoot(i) =>
                /\ rootIdx <= i
                /\ \A v \in visits : v.root < i
                /\ walkErr # "nil"
                /\ (WalkReturned /\ rootIdx = i) => walkErr = "perm"
          /\ (MissingRoot(i) /\ rootIdx = i) => (pc = "loop" /\ walkErr = "unset")
          /\ MissingRoot(i) => \A v \in visits : v.root # i
    /\ walkErr = "perm" => UnreadableRoot(rootIdx)
    /\ \A d \in Denied : \A v \in visits : v.root = d.root => ~Below(v.path, d.path)
    /\ (WalkReturned /\ walkErr = "nil") =>
          \A i \in 1..Len(roots) : \A d \in WorkingCopies(roots[i]) :
              \E r \in Reports : r.root = i /\ r.repo.FullPath = d

C4_Witness ==
    /\ pc = "done"
    /\ walkErr = "nil"
    /\ Denied # {}
    /\ \E i \in 1..Len(roots) : MissingRoot(i)
    /\ Len(reported) >= 2

\* C5 (as claimed): with no ghq.findVcs, a directory whose only marker is
\* CVS/Repository is detected as the CVS dummy backend, and that backend's
\* Clone and Update return an error and run nothing.
C5_CvsDetectedNotMutated ==
    /\ (detected # "unset" /\ findVcs = << >> /\ fs = <<"detect", {M_cvs}>>) =>
          detected = "cvsDummyBackend"
    /\ (lastOp.op # "none" /\ lastOp.backend = "cvsDummyBackend") =>
          (lastOp.res.err # "nil" /\ lastOp.res.ran = << >>)

\* the suffixes of a slash-separated path, shortest first
Suffixes(rel) ==
    [i \in 1..Len(Split(rel, "/")) |->
        JoinStr(SubSeq(Split(rel, "/"), Len(Split(rel, "/")) - i + 1, Len(Split(rel, "/"))), "/")]

Queries ==
    {<<"a">>, <<"h", "/", "a">>, <<"h">>, <<"z">>, <<"h", "/", "z">>, <<"/", "z">>,
     <<"h", "/", "/", "z">>, <<"/", "a">>}

SubpathsAreSuffixes(repo) ==
    /\ Subpaths(repo) = Suffixes(repo.RelPath)
    /\ \A i \in 1..Len(Subpaths(repo)) : EmptyStr \notin Range(Split(Subpaths(repo)[i], "/"))
    /\ Matches(repo, repo.RelPath)
    /\ \A q \in Queries : Matches(repo, q) <=> q \in Range(Suffixes(repo.RelPath))

\* C6 (as claimed): for every LocalRepository of LocalRepositoryFromFullPath or
\* LocalRepositoryFromURL, Subpaths() is the sequence of the suffixes of RelPath,
\* shortest first, none with an empty segment, and Matches(query) holds exactly
\* of those suffixes, of RelPath among them.
C6_SubpathsAreSuffixesOfRelPath ==
    /\ \A r \in Reports : SubpathsAreSuffixes(r.repo)
    /\ (pc = "done" /\ result.err = "nil") => SubpathsAreSuffixes(result.repo)

Normalized(path) ==
    /\ Clean(path) = path
    /\ IsAbs(path)
    /\ Exists(path) => EvalSymlinks(path).path = path

\* C7 (as claimed): the calls of localRepositoryRoots that return without
\* error all return the same list, every entry of it cleaned, absolute and
\* symlink-resolved.
C7_RootsNormalizedOnce ==
    \A r \in rootsReturned : r.err = "nil" =>
        /\ \A i \in 1..Len(r.ret) : Normalized(r.ret[i])
        /\ \A r2 \in rootsReturned : r2.err = "nil" => r2.ret = r.ret

\* C8 (as claimed): the walk never panics; a root whose stat fails otherwise
\* than with "does not exist" makes it return an error.
C8_StatFailureIsReturned ==
    /\ pc # "panic"
    /\ \A i \in 1..Len(roots) :
          (WalkReturned /\ rootIdx = i /\ Stat(roots[i]).err \notin {"nil", "notexist"}) =>
              walkErr \notin {"nil", "unset"}

\* the first repository the callback was given whose RelPath is the URL's
FirstMatch ==
    reported[CHOOSE k \in 1..Len(reported) :
                /\ reported[k].repo.RelPath = relPath
                /\ \A j \in 1..(k - 1) : reported[j].repo.RelPath # relPath]

\* C9 (as claimed): of several reported repositories whose RelPath is the
\* URL's, LocalRepositoryFromURL returns the first one reported, the one under
\* the earliest root.
C9_FirstMatchWins ==
    (pc = "done" /\ result.err = "nil" /\ Matching # {}) =>
        /\ result.repo = FirstMatch.repo
        /\ \A r \in Matching : FirstMatch.root <= r.root

\* C10: in the walk of one root, a working copy that is no symbolic link
\* makes walkFn return SkipDir and nothing below it is visited, so the
\* callback is given nothing below it; a working copy that is a symbolic link
\* is given to the callback and walkFn returns nil.
C10_WorkingCopyPruned ==
    \A v \in visits : v.called =>
        /\ \E r \in Reports : r.root = v.root /\ r.repo.FullPath = v.path
        /\ ~v.isSymlink =>
              /\ v.ret = "SkipDir"
              /\ \A w \in visits : w.root = v.root => ~Below(w.path, v.path)
              /\ \A r \in Reports : r.root = v.root => ~Below(r.repo.FullPath, v.path)
        /\ v.isSymlink => v.ret = "nil"

C10_Witness ==
    /\ pc = "done"
    /\ \E v \in visits : v.called /\ ~v.isSymlink /\ v.path = P_r_h_a
    /\ \E v \in visits : v.called /\ v.isSymlink /\ v.path = P_r_h_l
    /\ Exists(Child(P_r_h_a_s, M_git))
====
